---- MODULE Spec2Model ----
(***************************************************************************)
(* A model of the website_scraper package: the breadth-first crawl of      *)
(* SiteScraper.scrape, the HTTPFetcher fallback chain it drives, the       *)
(* DuckDuckGoSearcher chain that augments the seeds, the exporters and the *)
(* perform_scrape pipeline that composes them.                             *)
(*                                                                         *)
(* A URL string is represented by the components urllib.parse.urlparse     *)
(* splits it into (scheme, netloc, path, fragment); params and query are   *)
(* carried through unchanged by every function modelled here and are left  *)
(* out.  The empty string is the record whose components are all empty.    *)
(* Only strings that urlparse accepts are modelled.                        *)
(***************************************************************************)
EXTENDS Integers, Sequences, FiniteSets, TLC

\* ------------------------------------------------------------------ bounds
MaxSeeds == 2        \* longest seed list handed to SiteScraper.scrape
MaxLinks == 2        \* most <a> elements on one fetched page
MaxPagesBound == 2   \* max_pages ranges over 1..MaxPagesBound
MaxHits == 1         \* most results one search backend produces
MaxResultsBound == 2 \* max_results ranges over 1..MaxResultsBound

\* ------------------------------------------------------------- URL strings
Url(s, n, p, f) == [scheme |-> s, netloc |-> n, path |-> p, fragment |-> f]

EmptyStr == Url("", "", "", "")

\* Python's None, as returned by _normalize and _clean_result_url.
None == Url("<None>", "", "", "")

\* `if x:` on an Optional[str].
Truthy(u) == u # None /\ u # EmptyStr

\* str.startswith("http") on the schemes of the model.
StartsWithHttp(s) == s \in {"http", "https"}

\* str.startswith("/") on the paths of the model.
StartsWithSlash(p) == p \in {"/", "/a", "/b", "/l/"}

\* A relative path made absolute below the root: "a" becomes "/a".
Rooted(p) == IF p = "a" THEN "/a" ELSE p

\* urlunparse followed by the urlparse of the next reader: with a netloc, a
\* non-empty path that lacks its leading slash is given one.
urlunparse(u) ==
    IF u.netloc # "" /\ u.path # "" /\ ~StartsWithSlash(u.path)
    THEN [u EXCEPT !.path = Rooted(u.path)] ELSE u

\* urljoin(base, url) for a base whose path has at most one segment.
urljoin(base, url) ==
    IF base = EmptyStr THEN url
    ELSE IF url = EmptyStr THEN base
    ELSE LET scheme == IF url.scheme = "" THEN base.scheme ELSE url.scheme
         IN IF scheme # base.scheme \/ ~StartsWithHttp(scheme) THEN url
            ELSE IF url.netloc # ""
                 THEN urlunparse(Url(scheme, url.netloc, url.path, url.fragment))
            ELSE IF url.path = ""
                 THEN urlunparse(Url(scheme, base.netloc, base.path, url.fragment))
            ELSE urlunparse(Url(scheme, base.netloc, Rooted(url.path), url.fragment))

\* "www." + netloc, or netloc[4:], on the hosts of the model.
WwwCounterpart(n) ==
    CASE n = "example.com" -> "www.example.com"
      [] n = "www.example.com" -> "example.com"
      [] n = "other.com" -> "www.other.com"
      [] OTHER -> "other.com"

default_domains(base_url) ==
    IF base_url.netloc = "" THEN {base_url.netloc}
    ELSE {base_url.netloc, WwwCounterpart(base_url.netloc)}

\* SiteScraper.__init__: set(allowed_domains or []) or default_domains.
allowed_domains_of(base_url, allowed_arg) ==
    IF allowed_arg # {} THEN allowed_arg ELSE default_domains(base_url)

\* SiteScraper._is_allowed
is_allowed_no_host_check(url, allowed) == StartsWithHttp(url.scheme)

is_allowed(url, allowed) ==
    IF ~StartsWithHttp(url.scheme) THEN FALSE ELSE url.netloc \in allowed

\* SiteScraper._normalize
normalize_keep_fragment(url, base_url) ==
    IF url = EmptyStr \/ url = None THEN None
    ELSE LET s == IF url.scheme = "" THEN base_url.scheme ELSE url.scheme
             n == IF url.netloc = "" THEN base_url.netloc ELSE url.netloc
         IN IF ~StartsWithHttp(s) THEN None
            ELSE urlunparse(Url(s, n, IF url.path = "" THEN "/" ELSE url.path,
                                url.fragment))

\* A normalization that writes scheme, "://", netloc and path one after the
\* other: a path without its leading slash runs into the host name.
normalize_by_concatenation(url, base_url) ==
    IF url = EmptyStr \/ url = None THEN None
    ELSE LET s == IF url.scheme = "" THEN base_url.scheme ELSE url.scheme
             n == IF url.netloc = "" THEN base_url.netloc ELSE url.netloc
         IN IF ~StartsWithHttp(s) THEN None
            ELSE IF url.path = "" THEN Url(s, n, "/", "")
            ELSE IF StartsWithSlash(url.path) THEN Url(s, n, url.path, "")
            ELSE Url(s, n \o url.path, "", "")

normalize(url, base_url) ==
    IF url = EmptyStr \/ url = None THEN None
    ELSE LET s == IF url.scheme = "" THEN base_url.scheme ELSE url.scheme
             n == IF url.netloc = "" THEN base_url.netloc ELSE url.netloc
         IN IF ~StartsWithHttp(s) THEN None
            ELSE urlunparse(Url(s, n, IF url.path = "" THEN "/" ELSE url.path, ""))

\* ------------------------------------------------------------ fetched HTML
\* A document as BeautifulSoup sees it: the <title> string ("" when the
\* element is missing or empty), the stripped visible strings, and the href
\* attribute of each <a> element in document order (EmptyStr when absent).
Html(title, text, links) == [title |-> title, text |-> text, links |-> links]

RECURSIVE SeqsUpTo(_, _)
SeqsUpTo(S, n) ==
    IF n = 0 THEN {<<>>}
    ELSE LET shorter == SeqsUpTo(S, n - 1)
         IN shorter \cup {Append(q, x) : q \in {r \in shorter : Len(r) = n - 1}, x \in S}

Range(q) == {q[i] : i \in 1..Len(q)}

\* ------------------------------------------------------------- HTTPFetcher
\* HTTPFetcher._strategies, by the name each puts in FetchResult.strategy.
Strategies == <<"requests", "httpx", "urllib">>

\* What one call of a strategy does: "ok" returns a FetchResult, "none"
\* returns None (the library cannot be imported), anything else is the
\* exception it raises.  _fetch_with_urllib has no ImportError branch.
FetchErrors == {"ConnectionError", "HTTPError"}
StrategyOutcomes(i) ==
    IF Strategies[i] = "urllib" THEN {"ok"} \cup FetchErrors
    ELSE {"ok", "none"} \cup FetchErrors

NoError == [strategy |-> "", error |-> "None"]

FetchResult(url, content, strategy) ==
    [url |-> url, status_code |-> 200, content |-> content, strategy |-> strategy]

\* HTTPFetcher.fetch from strategy i on: invoked is the list of strategies
\* called so far, last_error the last exception caught.
RECURSIVE fetch_from(_, _, _, _, _, _, _)
fetch_from(i, url, outcomes, content, pause, invoked, last_error) ==
    IF i > Len(Strategies)
    THEN [url |-> url, invoked |-> invoked, status |-> "raised", result |-> <<>>,
          cause |-> last_error, slept |-> 0]
    ELSE LET called == Append(invoked, Strategies[i])
         IN IF outcomes[i] = "ok"
            THEN [url |-> url, invoked |-> called, status |-> "returned",
                  result |-> <<FetchResult(url, content, Strategies[i])>>,
                  cause |-> NoError, slept |-> IF pause # 0 THEN 1 ELSE 0]
            ELSE IF outcomes[i] = "none"
            THEN fetch_from(i + 1, url, outcomes, content, pause, called, last_error)
            ELSE fetch_from(i + 1, url, outcomes, content, pause, called,
                            [strategy |-> Strategies[i], error |-> outcomes[i]])

\* A chain that keeps calling backends after one has succeeded.
RECURSIVE fetch_all_from(_, _, _, _, _, _, _)
fetch_all_from(i, url, outcomes, content, pause, invoked, won) ==
    IF i > Len(Strategies)
    THEN IF won = ""
         THEN [url |-> url, invoked |-> invoked, status |-> "raised", result |-> <<>>,
               cause |-> NoError, slept |-> 0]
         ELSE [url |-> url, invoked |-> invoked, status |-> "returned",
               result |-> <<FetchResult(url, content, won)>>,
               cause |-> NoError, slept |-> IF pause # 0 THEN 1 ELSE 0]
    ELSE fetch_all_from(i + 1, url, outcomes, content, pause,
                        Append(invoked, Strategies[i]),
                        IF outcomes[i] = "ok" /\ won = "" THEN Strategies[i] ELSE won)

fetch_calls_all(url, outcomes, content, pause) ==
    fetch_all_from(1, url, outcomes, content, pause, <<>>, "")

\* A chain that reports the first exception it caught instead of the last.
RECURSIVE fetch_first_from(_, _, _, _, _, _, _)
fetch_first_from(i, url, outcomes, content, pause, invoked, first_error) ==
    IF i > Len(Strategies)
    THEN [url |-> url, invoked |-> invoked, status |-> "raised", result |-> <<>>,
          cause |-> first_error, slept |-> 0]
    ELSE LET called == Append(invoked, Strategies[i])
         IN IF outcomes[i] = "ok"
            THEN [url |-> url, invoked |-> called, status |-> "returned",
                  result |-> <<FetchResult(url, content, Strategies[i])>>,
                  cause |-> NoError, slept |-> IF pause # 0 THEN 1 ELSE 0]
            ELSE fetch_first_from(i + 1, url, outcomes, content, pause, called,
                                  IF outcomes[i] = "none" \/ first_error # NoError
                                  THEN first_error
                                  ELSE [strategy |-> Strategies[i], error |-> outcomes[i]])

fetch_first_error(url, outcomes, content, pause) ==
    fetch_first_from(1, url, outcomes, content, pause, <<>>, NoError)

\* A chain that returns without the pause.
fetch_without_pause(url, outcomes, content, pause) ==
    [fetch_from(1, url, outcomes, content, pause, <<>>, NoError) EXCEPT !.slept = 0]

fetch(url, outcomes, content, pause) ==
    fetch_from(1, url, outcomes, content, pause, <<>>, NoError)

\* ------------------------------------------------------------- SiteScraper
PageContent(url, title, text, fetch_strategy) ==
    [url |-> url, title |-> title, text |-> text, fetch_strategy |-> fetch_strategy]

\* A page title: the <title> text, or the page's own URL as the fallback.
TitleText(s) == [text |-> s, url |-> EmptyStr]
TitleUrl(u) == [text |-> "", url |-> u]

\* SiteScraper._parse_page (raw_html is read once more, by _extract_links in
\* the same loop iteration, and is not kept in the model's PageContent).
parse_page(fetch_result) ==
    PageContent(fetch_result.url,
                IF fetch_result.content.title # ""
                THEN TitleText(fetch_result.content.title)
                ELSE TitleUrl(fetch_result.url),
                fetch_result.content.text,
                fetch_result.strategy)

\* SiteScraper._extract_links
RECURSIVE extract_links_unscoped(_, _, _)
extract_links_unscoped(links, base_url, allowed) ==
    IF links = <<>> THEN <<>>
    ELSE LET href == Head(links)
             rest == extract_links_unscoped(Tail(links), base_url, allowed)
         IN IF href = EmptyStr THEN rest
            ELSE <<urljoin(base_url, href)>> \o rest

RECURSIVE extract_links(_, _, _)
extract_links(links, base_url, allowed) ==
    IF links = <<>> THEN <<>>
    ELSE LET href == Head(links)
             rest == extract_links(Tail(links), base_url, allowed)
         IN IF href = EmptyStr THEN rest
            ELSE LET absolute == urljoin(base_url, href)
                 IN IF is_allowed(absolute, allowed) THEN <<absolute>> \o rest
                    ELSE rest

\* scrape, lines 53-56: the seed loop (visited is still empty there).
RECURSIVE enqueue_seeds(_, _, _, _)
enqueue_seeds(seed_urls, base_url, visited0, queue0) ==
    IF seed_urls = <<>> THEN queue0
    ELSE LET normalized == normalize(Head(seed_urls), base_url)
         IN enqueue_seeds(Tail(seed_urls), base_url, visited0,
                          IF Truthy(normalized) /\ normalized \notin visited0
                          THEN Append(queue0, normalized) ELSE queue0)

\* scrape, lines 78-86: the link loop of one successfully fetched page.
enqueue_links_first_only(links, base_url, visited0, queue0) ==
    IF links = <<>> THEN queue0
    ELSE LET normalized_link == normalize(Head(links), base_url)
         IN IF ~Truthy(normalized_link) \/ normalized_link \in visited0
               \/ normalized_link \in Range(queue0)
            THEN queue0 ELSE Append(queue0, normalized_link)

\* A link loop that puts new links at the head of the frontier.
RECURSIVE enqueue_links_at_front(_, _, _, _)
enqueue_links_at_front(links, base_url, visited0, queue0) ==
    IF links = <<>> THEN queue0
    ELSE LET normalized_link == normalize(Head(links), base_url)
         IN enqueue_links_at_front(Tail(links), base_url, visited0,
                          IF ~Truthy(normalized_link) THEN queue0
                          ELSE IF normalized_link \in visited0 THEN queue0
                          ELSE IF normalized_link \in Range(queue0) THEN queue0
                          ELSE <<normalized_link>> \o queue0)

RECURSIVE enqueue_links(_, _, _, _)
enqueue_links(links, base_url, visited0, queue0) ==
    IF links = <<>> THEN queue0
    ELSE LET normalized_link == normalize(Head(links), base_url)
         IN enqueue_links(Tail(links), base_url, visited0,
                          IF ~Truthy(normalized_link) THEN queue0
                          ELSE IF normalized_link \in visited0 THEN queue0
                          ELSE IF normalized_link \in Range(queue0) THEN queue0
                          ELSE Append(queue0, normalized_link))

\* scrape, lines 62-68: what becomes of the URL just dequeued.
dequeue(url, visited0, allowed) ==
    IF url \in visited0 THEN "visited"
    ELSE IF ~is_allowed(url, allowed) THEN "not_allowed"
    ELSE "fetch"

\* scrape, line 60: the loop condition.
loop_continues_unbounded(queue0, results0, max_pages0) == queue0 # <<>>

\* A loop condition that lets one more URL be taken once the budget is spent.
loop_continues_one_more(queue0, results0, max_pages0) ==
    queue0 # <<>> /\ Len(results0) <= max_pages0

loop_continues(queue0, results0, max_pages0) ==
    queue0 # <<>> /\ Len(results0) < max_pages0

\* ------------------------------------------------------ DuckDuckGoSearcher
\* A raw search hit: a URL string and, when its query carries one, the
\* decoded uddg parameter.
Hit(url, uddg) == [url |-> url, uddg |-> uddg]
Plain(url) == Hit(url, <<>>)

\* DuckDuckGoSearcher._clean_result_url
clean_result_url(hit) ==
    IF hit.url = EmptyStr \/ hit.url = None THEN None
    ELSE IF /\ hit.url.netloc \in {"duckduckgo.com", "lite.duckduckgo.com"}
            /\ hit.url.path = "/l/"
            /\ hit.uddg # <<>>
         THEN hit.uddg[1]
         ELSE hit.url

\* DuckDuckGoSearcher._strategies
SearchStrategies == <<"_search_via_library", "_search_html_endpoint",
                      "_search_lite_endpoint">>

\* What a search backend meets when it runs: items are the results the
\* library generator produces, or the <a> elements of the endpoint's page;
\* fails says that the library raises once the items are consumed, or that
\* the fetch of the endpoint's page raises.
Behaviour(items, fails) == [items |-> items, fails |-> fails]

\* _search_via_library: every result with a URL is cleaned and yielded.
RECURSIVE library_yields(_)
library_yields(items) ==
    IF items = <<>> THEN <<>>
    ELSE LET cleaned == clean_result_url(Head(items))
         IN IF Truthy(cleaned) THEN <<cleaned>> \o library_yields(Tail(items))
            ELSE library_yields(Tail(items))

\* _parse_results: every <a> with an href is cleaned, yielded and counted;
\* the generator ends once count reaches max_results.
RECURSIVE parse_results(_, _, _)
parse_results(items, count, max_results) ==
    IF items = <<>> THEN [yields |-> <<>>, ended |-> FALSE]
    ELSE IF Head(items).url = EmptyStr
         THEN parse_results(Tail(items), count, max_results)
    ELSE LET cleaned == clean_result_url(Head(items))
             this == IF Truthy(cleaned) THEN <<cleaned>> ELSE <<>>
         IN IF count + 1 >= max_results
            THEN [yields |-> this, ended |-> TRUE]
            ELSE LET rest == parse_results(Tail(items), count + 1, max_results)
                 IN [yields |-> this \o rest.yields, ended |-> rest.ended]

\* The generator strategy i returns: the URLs it yields and whether
\* it raises once they are consumed.
strategy_run(i, b, max_results) ==
    IF SearchStrategies[i] = "_search_via_library"
    THEN [yields |-> library_yields(b.items), raises |-> b.fails]
    ELSE IF b.fails THEN [yields |-> <<>>, raises |-> TRUE]
    ELSE [yields |-> parse_results(b.items, 0, max_results).yields, raises |-> FALSE]

\* search, lines 38-44: the inner loop over one backend's generator.
\* An inner loop that does not consult seen.
RECURSIVE consume_no_seen(_, _, _, _)
consume_no_seen(yields, found, seen, max_results) ==
    IF yields = <<>> THEN [found |-> found, seen |-> seen, broke |-> FALSE]
    ELSE LET cleaned == clean_result_url(Plain(Head(yields)))
         IN IF Truthy(cleaned)
            THEN IF Len(found) + 1 >= max_results
                 THEN [found |-> Append(found, cleaned), seen |-> seen \cup {cleaned},
                       broke |-> TRUE]
                 ELSE consume_no_seen(Tail(yields), Append(found, cleaned),
                                      seen \cup {cleaned}, max_results)
            ELSE consume_no_seen(Tail(yields), found, seen, max_results)

RECURSIVE consume(_, _, _, _)
consume(yields, found, seen, max_results) ==
    IF yields = <<>> THEN [found |-> found, seen |-> seen, broke |-> FALSE]
    ELSE LET cleaned == clean_result_url(Plain(Head(yields)))
         IN IF Truthy(cleaned) /\ cleaned \notin seen
            THEN IF Len(found) + 1 >= max_results
                 THEN [found |-> Append(found, cleaned), seen |-> seen \cup {cleaned},
                       broke |-> TRUE]
                 ELSE consume(Tail(yields), Append(found, cleaned),
                              seen \cup {cleaned}, max_results)
            ELSE consume(Tail(yields), found, seen, max_results)

\* search, lines 36-49, from strategy i on.  invoked lists the backends
\* called, each with the number of URLs its generator holds, len(found) when
\* search left it and whether it raised (the exception is caught by search).
RECURSIVE search_from(_, _, _, _, _, _)
search_from(i, behaviours, max_results, found, seen, invoked) ==
    IF i > Len(SearchStrategies)
    THEN [status |-> "returned", found |-> found, invoked |-> invoked]
    ELSE LET run == strategy_run(i, behaviours[i], max_results)
             c == consume(run.yields, found, seen, max_results)
             called == Append(invoked, [strategy |-> SearchStrategies[i],
                                        yielded |-> Len(run.yields),
                                        collected |-> Len(c.found),
                                        caught |-> run.raises /\ ~c.broke])
         IN IF Len(c.found) >= max_results
            THEN [status |-> "returned", found |-> c.found, invoked |-> called]
            ELSE search_from(i + 1, behaviours, max_results, c.found, c.seen, called)

\* A search whose loop lets a backend's exception pass.
RECURSIVE search_uncaught_from(_, _, _, _, _, _)
search_uncaught_from(i, behaviours, max_results, found, seen, invoked) ==
    IF i > Len(SearchStrategies)
    THEN [status |-> "returned", found |-> found, invoked |-> invoked]
    ELSE LET run == strategy_run(i, behaviours[i], max_results)
             c == consume(run.yields, found, seen, max_results)
             called == Append(invoked, [strategy |-> SearchStrategies[i],
                                        yielded |-> Len(run.yields),
                                        collected |-> Len(c.found),
                                        caught |-> run.raises /\ ~c.broke])
         IN IF run.raises /\ ~c.broke
            THEN [status |-> "raised", found |-> <<>>, invoked |-> called]
            ELSE IF Len(c.found) >= max_results
            THEN [status |-> "returned", found |-> c.found, invoked |-> called]
            ELSE search_uncaught_from(i + 1, behaviours, max_results, c.found, c.seen,
                                      called)

search_uncaught(behaviours, max_results) ==
    search_uncaught_from(1, behaviours, max_results, <<>>, {}, <<>>)

\* A search that stops at the first backend that gave it a URL.
RECURSIVE search_until_results_from(_, _, _, _, _, _)
search_until_results_from(i, behaviours, max_results, found, seen, invoked) ==
    IF i > Len(SearchStrategies)
    THEN [status |-> "returned", found |-> found, invoked |-> invoked]
    ELSE LET run == strategy_run(i, behaviours[i], max_results)
             c == consume(run.yields, found, seen, max_results)
             called == Append(invoked, [strategy |-> SearchStrategies[i],
                                        yielded |-> Len(run.yields),
                                        collected |-> Len(c.found),
                                        caught |-> run.raises /\ ~c.broke])
         IN IF c.found # <<>>
            THEN [status |-> "returned", found |-> c.found, invoked |-> called]
            ELSE search_until_results_from(i + 1, behaviours, max_results, c.found,
                                           c.seen, called)

search_until_results(behaviours, max_results) ==
    search_until_results_from(1, behaviours, max_results, <<>>, {}, <<>>)

search(behaviours, max_results) ==
    search_from(1, behaviours, max_results, <<>>, {}, <<>>)

\* --------------------------------------------------------------- exporters
Sep80 == "================================================================================"

Line(tag, text, url) == [tag |-> tag, text |-> text, url |-> url]
BlankLine == Line("", "", EmptyStr)

RECURSIVE TextLines(_)
TextLines(text) ==
    IF text = <<>> THEN <<>>
    ELSE <<Line("", Head(text), EmptyStr)>> \o TextLines(Tail(text))

\* The lines TextExporter.render writes for one page.  page.text is the
\* visible strings joined by newlines; the empty text is one empty line once
\* the newline that follows it is written.
render_page_blank_after_title(page) ==
    << Line("# ", page.title.text, page.title.url),
       BlankLine,
       Line("URL: ", "", page.url),
       Line("Fetched via: ", page.fetch_strategy, EmptyStr),
       BlankLine >>
    \o (IF page.text = <<>> THEN <<BlankLine>> ELSE TextLines(page.text))
    \o << BlankLine, Line("", Sep80, EmptyStr), BlankLine >>

render_page(page) ==
    << Line("# ", page.title.text, page.title.url),
       Line("URL: ", "", page.url),
       Line("Fetched via: ", page.fetch_strategy, EmptyStr),
       BlankLine >>
    \o (IF page.text = <<>> THEN <<BlankLine>> ELSE TextLines(page.text))
    \o << BlankLine, Line("", Sep80, EmptyStr), BlankLine >>

\* TextExporter.render, as the newline-terminated lines of the string.
RECURSIVE render(_)
render(pages) ==
    IF pages = <<>> THEN <<>>
    ELSE render_page(Head(pages)) \o render(Tail(pages))

\* PDFExporter._strategies
PdfStrategies == <<"_export_with_fpdf", "_export_with_reportlab">>
PdfOutcomes == {"ok", "ImportError", "Exception"}

\* PDFExporter.export from strategy i on.
RECURSIVE export_from(_, _, _, _, _)
export_from(i, pages, outcomes, invoked, last_error) ==
    IF i > Len(PdfStrategies)
    THEN [status |-> "raised", strategy |-> "", invoked |-> invoked,
          cause |-> last_error]
    ELSE LET called == Append(invoked, PdfStrategies[i])
         IN IF outcomes[i] = "ok"
            THEN [status |-> "returned", strategy |-> PdfStrategies[i],
                  invoked |-> called, cause |-> NoError]
            ELSE export_from(i + 1, pages, outcomes, called,
                             [strategy |-> PdfStrategies[i], error |-> outcomes[i]])

export(pages, outcomes) == export_from(1, pages, outcomes, <<>>, NoError)

\* The bytes a backend writes for pages (never empty); b"" is <<>>.
PdfBytes(strategy, pages) == <<[backend |-> strategy, pages |-> Len(pages)]>>

\* PDFExporter.export_to_bytes
export_to_bytes(pages, outcomes) ==
    LET e == export(pages, outcomes)
    IN [status |-> e.status, strategy |-> e.strategy, invoked |-> e.invoked,
        cause |-> e.cause,
        data |-> IF e.status = "returned" THEN PdfBytes(e.strategy, pages) ELSE <<>>]

\* ------------------------------------------------------------ ScrapeRequest
\* The bounds of the fields of api.ScrapeRequest.
MaxPagesLimit == 500
MaxSearchResultsLimit == 200

\* The pydantic validation of a ScrapeRequest body: ge=1, le=500 on max_pages,
\* ge=1, le=200 on max_search_results, gt=0 on timeout and ge=0 on pause.
validate(req) ==
    /\ req.max_pages >= 1 /\ req.max_pages <= MaxPagesLimit
    /\ req.max_search_results >= 1 /\ req.max_search_results <= MaxSearchResultsLimit
    /\ req.timeout > 0
    /\ req.pause >= 0

\* ---------------------------------------------------------- perform_scrape
\* utils.normalize_base_url
normalize_base_url(url) ==
    LET s == IF url.scheme = "" THEN "https" ELSE url.scheme
        bare == url.netloc = ""
    IN urlunparse(Url(s, IF bare THEN url.path ELSE url.netloc,
                      IF bare THEN "" ELSE url.path, url.fragment))

\* perform_scrape, lines 81-84: the seed list.
\* A seed list that takes every result the crawl would allow.
RECURSIVE seed_list_allowed_hosts(_, _, _)
seed_list_allowed_hosts(search_results, domain, seeds) ==
    IF search_results = <<>> THEN seeds
    ELSE LET result == Head(search_results)
         IN seed_list_allowed_hosts(
                Tail(search_results), domain,
                IF result.netloc \in {domain, WwwCounterpart(domain)}
                      /\ result \notin Range(seeds)
                THEN Append(seeds, result) ELSE seeds)

RECURSIVE seed_list(_, _, _)
seed_list(search_results, domain, seeds) ==
    IF search_results = <<>> THEN seeds
    ELSE LET result == Head(search_results)
         IN seed_list(Tail(search_results), domain,
                      IF result.netloc = domain /\ result \notin Range(seeds)
                      THEN Append(seeds, result) ELSE seeds)

\* cli._normalize_base_url, the command-line tool's own copy.
cli_normalize_base_url(url) ==
    LET s == IF url.scheme = "" THEN "https" ELSE url.scheme
        bare == url.netloc = ""
    IN urlunparse(Url(s, IF bare THEN url.path ELSE url.netloc,
                      IF bare THEN "" ELSE url.path, url.fragment))

ScrapedPage(page) ==
    [url |-> page.url, title |-> page.title, fetch_strategy |-> page.fetch_strategy]

\* perform_scrape, lines 89-108: render, export when there are pages, and
\* assemble the outcome.  pdf_call is <<>> when no backend was invoked.
finish_scrape_always_exports(base, pages, pdf_outcomes) ==
    LET e == export_to_bytes(pages, pdf_outcomes)
    IN IF e.status = "raised"
       THEN [ppc |-> "raised", pdf_call |-> <<e>>, outcome |-> <<>>]
       ELSE [ppc |-> "returned", pdf_call |-> <<e>>,
             outcome |-> <<[base_url |-> base, domain |-> base.netloc, pages |-> pages,
                            rendered_text |-> render(pages), pdf_bytes |-> e.data,
                            pdf_strategy |-> e.strategy,
                            serialized_pages |->
                                [i \in 1..Len(pages) |-> ScrapedPage(pages[i])]]>>]

finish_scrape(base, pages, pdf_outcomes) ==
    LET rendered_text == render(pages)
        e == export_to_bytes(pages, pdf_outcomes)
        made(pdf_strategy, pdf_bytes) ==
            <<[base_url |-> base, domain |-> base.netloc, pages |-> pages,
               rendered_text |-> rendered_text, pdf_bytes |-> pdf_bytes,
               pdf_strategy |-> pdf_strategy,
               serialized_pages |-> [i \in 1..Len(pages) |-> ScrapedPage(pages[i])]]>>
    IN IF pages = <<>>
       THEN [ppc |-> "returned", pdf_call |-> <<>>, outcome |-> made("", <<>>)]
       ELSE IF e.status = "raised"
       THEN [ppc |-> "raised", pdf_call |-> <<e>>, outcome |-> <<>>]
       ELSE [ppc |-> "returned", pdf_call |-> <<e>>, outcome |-> made(e.strategy, e.data)]

\* ------------------------------------------------------------------ inputs
\* base_url as passed to SiteScraper.__init__ or seen by a chain's caller.
BaseUrls == {Url("https", "example.com", "", "")}

\* allowed_domains as passed to SiteScraper.__init__ ({} when omitted).
AllowedArgs == {{}, {"example.com"}}

\* Strings a caller may pass to scrape as seeds.
SeedUrls ==
    { Url("https", "example.com", "", ""),       \* https://example.com
      Url("", "", "a", "top"),                   \* a#top
      Url("https", "other.com", "/", ""),        \* https://other.com/
      Url("mailto", "", "a", ""),                \* mailto:a
      EmptyStr }

\* href attributes found in fetched pages.
Hrefs ==
    { Url("", "", "a", "top"),                   \* a#top
      Url("", "", "/b", ""),                     \* /b
      Url("https", "example.com", "", ""),       \* https://example.com
      Url("", "www.example.com", "/a", ""),      \* //www.example.com/a
      Url("https", "other.com", "/", "") }       \* https://other.com/

\* The documents a crawl is served: titled pages with up to MaxLinks links,
\* an untitled page without links or text, and a page whose text holds a
\* line of 80 "=" characters.
Docs ==
    {Html("Home", <<"hello">>, l) : l \in SeqsUpTo(Hrefs, MaxLinks)}
        \cup {Html("", <<>>, <<>>)}
        \cup {Html("Rule", <<Sep80, "tail">>, <<>>)}

\* What the three fetch backends do for one URL.
AllOutcomes ==
    {<<a, b, c>> : a \in StrategyOutcomes(1), b \in StrategyOutcomes(2),
                   c \in StrategyOutcomes(3)}

\* The backend behaviours a crawl is run against.
CrawlOutcomes ==
    { <<"ok", "ok", "ok">>,
      <<"HTTPError", "none", "ok">>,
      <<"ConnectionError", "none", "HTTPError">> }

Pauses == {0, 1}

\* URLs HTTPFetcher.fetch is called with on its own.
FetchUrls == {Url("https", "example.com", "/", ""), Url("https", "other.com", "/a", "")}

\* The url parameter of perform_scrape.
ParamUrls ==
    { Url("", "", "example.com", ""),            \* example.com
      Url("https", "example.com", "", ""),       \* https://example.com
      Url("ftp", "example.com", "", "") }        \* ftp://example.com

\* The parameters of one scrape: ScrapeParameters, the body of a
\* ScrapeRequest, or the arguments of the command line.
Params(url, max_pages0, max_search_results, timeout, pause0) ==
    [url |-> url, max_pages |-> max_pages0, max_search_results |-> max_search_results,
     timeout |-> timeout, pause |-> pause0]

\* The value of params where no parameters are passed.
NoParams == Params(EmptyStr, 0, 0, 0, 0)

\* ScrapeParameters a caller passes to perform_scrape, with the default
\* timeout and pause; max_pages = 0 is one the dataclass accepts as it
\* accepts any other integer.
PerformParams ==
    {Params(u, mp, msr, 15, 1) : u \in ParamUrls, mp \in 0..MaxPagesBound,
                                 msr \in 1..MaxResultsBound}

\* Request bodies posted to /api/scrape: one inside every range, and one
\* outside each bound of ScrapeRequest.
ApiRequests ==
    LET u == Url("https", "example.com", "", "")
    IN { Params(u, 1, 1, 15, 0),
         Params(u, 0, 1, 15, 0), Params(u, MaxPagesLimit + 1, 1, 15, 0),
         Params(u, 1, 0, 15, 0), Params(u, 1, MaxSearchResultsLimit + 1, 15, 0),
         Params(u, 1, 1, 0, 0), Params(u, 1, 1, 15, -1) }

\* Arguments given to the command-line tool.
CliArgs ==
    {Params(Url("", "", "example.com", ""), mp, 1, 15, 0) : mp \in 0..1}

\* What a search backend may list.
SearchHits ==
    { Plain(Url("https", "example.com", "/a", "")),
      Hit(Url("", "duckduckgo.com", "/l/", ""), <<Url("https", "example.com", "/a", "")>>),
      Plain(Url("https", "example.com", "/", "")),
      Plain(Url("https", "example.com", "", "")),
      Plain(Url("https", "www.example.com", "/a", "")) }

SearchBehaviours ==
    {Behaviour(items, fails) : items \in SeqsUpTo(SearchHits, MaxHits),
                               fails \in BOOLEAN}

AllSearchBehaviours ==
    {<<a, b, c>> : a \in SearchBehaviours, b \in SearchBehaviours,
                   c \in SearchBehaviours}

\* Searches whose first backend produces two results.
TwoHitBehaviours ==
    {<<Behaviour(<<h1, h2>>, fails), b, Behaviour(<<>>, FALSE)>> :
        h1 \in SearchHits, h2 \in SearchHits, fails \in BOOLEAN,
        b \in SearchBehaviours}

AllPdfOutcomes == {<<a, b>> : a \in PdfOutcomes, b \in PdfOutcomes}

\* ------------------------------------------------------------------- state
VARIABLES
    entry,            \* the operation called: "scrape", "fetch", "search",
                      \* "perform_scrape", "api" (POST /api/scrape), "cli" (main)
    params,           \* the ScrapeParameters, request body or arguments passed
                      \* to perform_scrape, scrape_site or main; NoParams else
    base_url,         \* SiteScraper.base_url
    allowed_domains,  \* SiteScraper.allowed_domains
    max_pages,        \* SiteScraper.max_pages
    pause,            \* HTTPFetcher.pause
    seed_urls,        \* the argument of scrape
    queue,            \* scrape: the frontier
    visited,          \* scrape: the visited set
    results,          \* scrape: the pages collected so far
    pc,               \* scrape: "idle", "called", "loop", "returned", "raised"
    fetch_log,        \* history: the URLs scrape passed to fetcher.fetch
    discovered,       \* history: in-scope URLs named by a seed or a fetched page
    last_fetch,       \* the latest call of HTTPFetcher.fetch, <<>> before any
    search_call,      \* the call of DuckDuckGoSearcher.search, <<>> before it
    pdf_call,         \* the call of PDFExporter.export_to_bytes, <<>> before it
    ppc,              \* perform_scrape and main: "idle", "request" (the body
                      \* is not validated yet), "rejected", "called",
                      \* "scraping", "returned", "raised"
    outcome,          \* perform_scrape: the ScrapeOutcome returned; main: the
                      \* files written; <<>> before
    response,         \* scrape_site: the HTTP status answered, <<>> before
    peer              \* a second call of scrape in progress next to this one
                      \* (its seed_urls, queue, visited, results, pc and
                      \* fetch_log); NoPeer when there is none

\* No second call of scrape.
NoPeer == <<>>

vars == <<entry, params, base_url, allowed_domains, max_pages, pause, seed_urls,
          queue, visited, results, pc, fetch_log, discovered, last_fetch,
          search_call, pdf_call, ppc, outcome, response, peer>>

config == <<entry, params, base_url, allowed_domains, max_pages, pause>>
crawl == <<seed_urls, queue, visited, results, pc, fetch_log, discovered>>
session == <<search_call, pdf_call, ppc, outcome, response>>

\* Every backend of a search call was invoked and raised.
AllCaught(s) ==
    /\ Len(s.invoked) = Len(SearchStrategies)
    /\ \A i \in 1..Len(s.invoked) : s.invoked[i].caught

\* Some backend of a search call yielded a URL.
AnyYielded(s) == \E i \in 1..Len(s.invoked) : s.invoked[i].yielded > 0

\* What the model keeps of the search call inside perform_scrape.
SearchSummary(s) ==
    <<[status |-> s.status, found |-> s.found, all_caught |-> AllCaught(s),
       any_yielded |-> AnyYielded(s)]>>

\* What the model keeps of one call of HTTPFetcher.fetch.
FetchCall(fr, outcomes) ==
    <<[url |-> fr.url, outcomes |-> outcomes, invoked |-> fr.invoked,
       status |-> fr.status,
       result |-> IF fr.result = <<>> THEN <<>>
                  ELSE <<[url |-> fr.result[1].url,
                          strategy |-> fr.result[1].strategy]>>,
       cause |-> fr.cause, slept |-> fr.slept]>>

\* A URL the crawl may fetch.
InScope(u) == Truthy(u) /\ StartsWithHttp(u.scheme) /\ u.netloc \in allowed_domains

\* The normalized in-scope URLs a page at page_url links to.
Targets(links, page_url) ==
    {u \in {normalize(urljoin(page_url, h), base_url) : h \in Range(links) \ {EmptyStr}} :
        InScope(u)}

InitScrape ==
    /\ entry = "scrape"
    /\ params = NoParams
    /\ base_url \in BaseUrls
    /\ \E arg \in AllowedArgs : allowed_domains = allowed_domains_of(base_url, arg)
    /\ max_pages \in 1..MaxPagesBound
    /\ pause \in Pauses
    /\ seed_urls \in SeqsUpTo(SeedUrls, MaxSeeds)
    /\ queue = <<>>
    /\ visited = {}
    /\ results = <<>>
    /\ pc = "called"
    /\ fetch_log = <<>>
    /\ discovered = {}
    /\ last_fetch = <<>>
    /\ search_call = <<>>
    /\ pdf_call = <<>>
    /\ ppc = "idle"
    /\ outcome = <<>>
    /\ response = <<>>
    /\ peer = NoPeer

\* A caller holding an HTTPFetcher.
InitFetch ==
    /\ entry = "fetch"
    /\ params = NoParams
    /\ base_url \in BaseUrls
    /\ allowed_domains = default_domains(base_url)
    /\ max_pages = 1
    /\ pause \in Pauses
    /\ seed_urls = <<>>
    /\ queue = <<>>
    /\ visited = {}
    /\ results = <<>>
    /\ pc = "idle"
    /\ fetch_log = <<>>
    /\ discovered = {}
    /\ last_fetch = <<>>
    /\ search_call = <<>>
    /\ pdf_call = <<>>
    /\ ppc = "idle"
    /\ outcome = <<>>
    /\ response = <<>>
    /\ peer = NoPeer

\* A caller holding a DuckDuckGoSearcher.
InitSearch ==
    /\ entry = "search"
    /\ params = NoParams
    /\ base_url \in BaseUrls
    /\ allowed_domains = default_domains(base_url)
    /\ max_pages = 1
    /\ pause = 0
    /\ seed_urls = <<>>
    /\ queue = <<>>
    /\ visited = {}
    /\ results = <<>>
    /\ pc = "idle"
    /\ fetch_log = <<>>
    /\ discovered = {}
    /\ last_fetch = <<>>
    /\ search_call = <<>>
    /\ pdf_call = <<>>
    /\ ppc = "idle"
    /\ outcome = <<>>
    /\ response = <<>>
    /\ peer = NoPeer

\* perform_scrape(params) is called.  base_url, max_pages and pause hold what
\* lines 72, 77 and 86 compute from params for the scraper and the fetcher.
InitPerform ==
    /\ entry = "perform_scrape"
    /\ params \in PerformParams
    /\ base_url = normalize_base_url(params.url)
    /\ allowed_domains = default_domains(base_url)
    /\ max_pages = params.max_pages
    /\ pause = params.pause
    /\ seed_urls = <<>>
    /\ queue = <<>>
    /\ visited = {}
    /\ results = <<>>
    /\ pc = "idle"
    /\ fetch_log = <<>>
    /\ discovered = {}
    /\ last_fetch = <<>>
    /\ search_call = <<>>
    /\ pdf_call = <<>>
    /\ ppc = "called"
    /\ outcome = <<>>
    /\ response = <<>>
    /\ peer = NoPeer

\* A body is posted to /api/scrape; it is not validated yet.
InitApi ==
    /\ entry = "api"
    /\ params \in ApiRequests
    /\ base_url = normalize_base_url(params.url)
    /\ allowed_domains = default_domains(base_url)
    /\ max_pages = params.max_pages
    /\ pause = params.pause
    /\ seed_urls = <<>>
    /\ queue = <<>>
    /\ visited = {}
    /\ results = <<>>
    /\ pc = "idle"
    /\ fetch_log = <<>>
    /\ discovered = {}
    /\ last_fetch = <<>>
    /\ search_call = <<>>
    /\ pdf_call = <<>>
    /\ ppc = "request"
    /\ outcome = <<>>
    /\ response = <<>>
    /\ peer = NoPeer

\* main(argv) is called; parse_args and line 37 have run.
InitCli ==
    /\ entry = "cli"
    /\ params \in CliArgs
    /\ base_url = cli_normalize_base_url(params.url)
    /\ allowed_domains = default_domains(base_url)
    /\ max_pages = params.max_pages
    /\ pause = params.pause
    /\ seed_urls = <<>>
    /\ queue = <<>>
    /\ visited = {}
    /\ results = <<>>
    /\ pc = "idle"
    /\ fetch_log = <<>>
    /\ discovered = {}
    /\ last_fetch = <<>>
    /\ search_call = <<>>
    /\ pdf_call = <<>>
    /\ ppc = "called"
    /\ outcome = <<>>
    /\ response = <<>>
    /\ peer = NoPeer

\* HTTPFetcher.fetch(url), lines 40-52.
Fetch ==
    /\ entry = "fetch"
    /\ last_fetch = <<>>
    /\ \E url \in FetchUrls, outcomes \in AllOutcomes :
         last_fetch' = FetchCall(fetch(url, outcomes, Html("", <<>>, <<>>), pause),
                                 outcomes)
    /\ UNCHANGED <<peer, config, crawl, session>>

\* DuckDuckGoSearcher.search(domain, max_results), lines 32-49.
Search ==
    /\ entry = "search"
    /\ search_call = <<>>
    /\ \E behaviours \in AllSearchBehaviours \cup TwoHitBehaviours,
          max_results \in 1..MaxResultsBound :
         \E s \in {search(behaviours, max_results)} :
            search_call' = <<[status |-> s.status, found |-> s.found,
                             all_caught |-> AllCaught(s), any_yielded |-> AnyYielded(s),
                             invoked |-> s.invoked, behaviours |-> behaviours,
                             max_results |-> max_results]>>
    /\ UNCHANGED <<peer, config, crawl, last_fetch, pdf_call, ppc, outcome, response>>

\* perform_scrape, lines 78-87: search, build the seed list, construct the
\* SiteScraper and call scrape.
PerformSearch ==
    /\ entry \in {"perform_scrape", "api"}
    /\ ppc = "called"
    /\ \E behaviours \in AllSearchBehaviours :
         \E s \in {search(behaviours, params.max_search_results)} :
            /\ search_call' = SearchSummary(s)
            /\ seed_urls' = seed_list(s.found, base_url.netloc, <<base_url>>)
    /\ ppc' = "scraping"
    /\ pc' = "called"
    /\ UNCHANGED <<peer, config, queue, visited, results, fetch_log, discovered, last_fetch,
                   pdf_call, outcome, response>>

\* perform_scrape, lines 89-108, by the way it ends.
PerformFinish(how) ==
    /\ entry \in {"perform_scrape", "api"}
    /\ ppc = "scraping"
    /\ pc = "returned"
    /\ \E pdf_outcomes \in AllPdfOutcomes :
         \E f \in {finish_scrape(base_url, results, pdf_outcomes)} :
            /\ how = (IF f.pdf_call = <<>> THEN "empty" ELSE f.ppc)
            /\ ppc' = f.ppc
            /\ pdf_call' = f.pdf_call
            /\ outcome' = f.outcome
    /\ UNCHANGED <<peer, config, crawl, last_fetch, search_call, response>>

\* The request body is validated against ScrapeRequest before scrape_site
\* runs: a body outside the bounds is answered 422, any other is handed to
\* perform_scrape (api.py, lines 79-88).
ApiValidate ==
    /\ entry = "api"
    /\ ppc = "request"
    /\ IF validate(params)
       THEN ppc' = "called" /\ response' = response
       ELSE ppc' = "rejected" /\ response' = <<422>>
    /\ UNCHANGED <<peer, config, crawl, last_fetch, search_call, pdf_call, outcome>>

\* scrape_site, lines 88-104: the answer once perform_scrape has ended.
ApiRespond ==
    /\ entry = "api"
    /\ ppc \in {"returned", "raised"}
    /\ response = <<>>
    /\ peer = NoPeer
    /\ response' = IF ppc = "raised" THEN <<500>>
                   ELSE IF outcome[1].pages = <<>> THEN <<404>>
                   ELSE <<200>>
    /\ UNCHANGED <<peer, config, crawl, last_fetch, search_call, pdf_call, ppc, outcome>>

\* main, lines 41-51: search, build the seed list and call scrape.
CliSearch ==
    /\ entry = "cli"
    /\ ppc = "called"
    /\ \E behaviours \in AllSearchBehaviours :
         \E s \in {search(behaviours, params.max_search_results)} :
            /\ search_call' = SearchSummary(s)
            /\ seed_urls' = seed_list(s.found, base_url.netloc, <<base_url>>)
    /\ ppc' = "scraping"
    /\ pc' = "called"
    /\ UNCHANGED <<peer, config, queue, visited, results, fetch_log, discovered, last_fetch,
                   pdf_call, outcome, response>>

\* main, lines 53-71: with no pages it warns and returns; otherwise it
\* writes the text file and then the document, whose export may raise.
CliFinish ==
    /\ entry = "cli"
    /\ ppc = "scraping"
    /\ pc = "returned"
    /\ IF results = <<>>
       THEN ppc' = "returned" /\ UNCHANGED <<pdf_call, outcome>>
       ELSE \E pdf_outcomes \in AllPdfOutcomes :
               \E e \in {export(results, pdf_outcomes)} :
                  /\ pdf_call' = <<e>>
                  /\ ppc' = e.status
                  /\ outcome' = <<[text_file |-> render(results),
                                   pdf_file |-> IF e.status = "returned"
                                                THEN PdfBytes(e.strategy, results)
                                                ELSE <<>>]>>
    /\ UNCHANGED <<peer, config, crawl, last_fetch, search_call, response>>

\* No page was crawled: no document is exported.
PerformReturnEmpty == PerformFinish("empty")

\* A document backend succeeds and the outcome is returned.
PerformReturn == PerformFinish("returned")

\* Every document backend fails: export_to_bytes raises.
PerformExportFailed == PerformFinish("raised")

\* scrape, lines 50-58: normalize and enqueue the seeds.
ScrapeStart ==
    /\ pc = "called"
    /\ queue' = enqueue_seeds(seed_urls, base_url, {}, <<>>)
    /\ visited' = {}
    /\ results' = <<>>
    /\ pc' = "loop"
    /\ discovered' = {u \in {normalize(s, base_url) : s \in Range(seed_urls)} : InScope(u)}
    /\ UNCHANGED <<peer, config, seed_urls, fetch_log, last_fetch, session>>

\* scrape, lines 61-63: the dequeued URL was visited before.
ScrapeSkipVisited ==
    /\ pc = "loop"
    /\ loop_continues(queue, results, max_pages)
    /\ dequeue(Head(queue), visited, allowed_domains) = "visited"
    /\ queue' = Tail(queue)
    /\ UNCHANGED <<peer, config, seed_urls, visited, results, pc, fetch_log, discovered,
                   last_fetch, session>>

\* An iteration that marks the URL visited before it tests the domain.
ScrapeSkipNotAllowedMarksVisited ==
    /\ pc = "loop"
    /\ loop_continues(queue, results, max_pages)
    /\ dequeue(Head(queue), visited, allowed_domains) = "not_allowed"
    /\ queue' = Tail(queue)
    /\ visited' = visited \cup {Head(queue)}
    /\ UNCHANGED <<peer, config, seed_urls, results, pc, fetch_log, discovered,
                   last_fetch, session>>

\* scrape, lines 64-66: the dequeued URL is outside the allowed domains.
ScrapeSkipNotAllowed ==
    /\ pc = "loop"
    /\ loop_continues(queue, results, max_pages)
    /\ dequeue(Head(queue), visited, allowed_domains) = "not_allowed"
    /\ queue' = Tail(queue)
    /\ UNCHANGED <<peer, config, seed_urls, visited, results, pc, fetch_log, discovered,
                   last_fetch, session>>

\* What scrape does with the outcome fr of fetching url (lines 68-86),
\* starting from the frontier rest left by popleft.
after_fetch_propagates(url, fr, rest, visited0, results0) ==
    IF fr.status = "raised"
    THEN [queue |-> rest, visited |-> visited0 \cup {url}, results |-> results0,
          pc |-> "raised"]
    ELSE LET page == parse_page(fr.result[1])
             seen == visited0 \cup {url}
         IN [queue |-> enqueue_links(
                           extract_links(fr.result[1].content.links, page.url,
                                         allowed_domains),
                           base_url, seen, rest),
             visited |-> seen,
             results |-> Append(results0, page),
             pc |-> "loop"]

\* An iteration that puts a URL whose fetch failed back into the frontier.
after_fetch_retries(url, fr, rest, visited0, results0) ==
    IF fr.status = "raised"
    THEN [queue |-> Append(rest, url), visited |-> visited0, results |-> results0,
          pc |-> "loop"]
    ELSE LET page == parse_page(fr.result[1])
             seen == visited0 \cup {url}
         IN [queue |-> enqueue_links(
                           extract_links(fr.result[1].content.links, page.url,
                                         allowed_domains),
                           base_url, seen, rest),
             visited |-> seen,
             results |-> Append(results0, page),
             pc |-> "loop"]

after_fetch(url, fr, rest, visited0, results0) ==
    IF fr.status = "raised"
    THEN [queue |-> rest, visited |-> visited0 \cup {url}, results |-> results0,
          pc |-> "loop"]
    ELSE LET page == parse_page(fr.result[1])
             seen == visited0 \cup {url}
         IN [queue |-> enqueue_links(
                           extract_links(fr.result[1].content.links, page.url,
                                         allowed_domains),
                           base_url, seen, rest),
             visited |-> seen,
             results |-> Append(results0, page),
             pc |-> "loop"]

ScrapeFetch(url, fr, outcomes) ==
    \E next \in {after_fetch(url, fr, Tail(queue), visited, results)} :
       /\ queue' = next.queue
       /\ visited' = next.visited
       /\ results' = next.results
       /\ pc' = next.pc
       /\ fetch_log' = Append(fetch_log, url)
       /\ last_fetch' = FetchCall(fr, outcomes)
       /\ discovered' =
            IF fr.status = "raised" THEN discovered
            ELSE discovered \cup Targets(fr.result[1].content.links, url)
       /\ UNCHANGED <<peer, config, seed_urls, session>>

\* scrape, lines 68-73: every backend fails for the dequeued URL.
ScrapeFetchFailed ==
    /\ pc = "loop"
    /\ loop_continues(queue, results, max_pages)
    /\ dequeue(Head(queue), visited, allowed_domains) = "fetch"
    /\ \E outcomes \in CrawlOutcomes :
         \E fr \in {fetch(Head(queue), outcomes, Html("", <<>>, <<>>), pause)} :
            fr.status = "raised" /\ ScrapeFetch(Head(queue), fr, outcomes)

\* scrape, lines 68-86: the dequeued URL is fetched, parsed and its links
\* are enqueued.
ScrapeFetchOkFrom(docs) ==
    /\ pc = "loop"
    /\ loop_continues(queue, results, max_pages)
    /\ dequeue(Head(queue), visited, allowed_domains) = "fetch"
    /\ \E outcomes \in CrawlOutcomes, doc \in docs :
         \E fr \in {fetch(Head(queue), outcomes, doc, pause)} :
            fr.status = "returned" /\ ScrapeFetch(Head(queue), fr, outcomes)

ScrapeFetchOk == ScrapeFetchOkFrom(Docs)

\* scrape, lines 60 and 88: the loop condition fails and results is returned.
ScrapeReturn ==
    /\ pc = "loop"
    /\ ~loop_continues(queue, results, max_pages)
    /\ pc' = "returned"
    /\ UNCHANGED <<peer, config, seed_urls, queue, visited, results, fetch_log, discovered,
                   last_fetch, session>>

\* ------------------------------------------------ two calls of scrape
\* The visited set a call of scrape consults and extends: its own local
\* (scraper.py line 52), whatever another call has visited.
shared_visited(own, other) == own \cup other

session_visited(own, other) == own

\* The seed lists of the two calls.
SessionSeeds ==
    {s \in SeqsUpTo(SeedUrls, MaxSeeds) :
        /\ Len(s) >= 1
        /\ s[1] = Url("https", "example.com", "", "")
        /\ \A i \in 1..Len(s) : s[i].scheme = "https"}

\* The documents the two calls are served.
SessionDocs ==
    {Html("Home", <<"hello">>, l) :
        l \in SeqsUpTo({Url("", "", "/b", ""), Url("https", "example.com", "", "")}, 1)}

\* Two calls of scrape on scrapers of the same configuration, as when the
\* endpoint serves two requests for one site in its thread pool.
InitSessions ==
    /\ entry = "scrape"
    /\ params = NoParams
    /\ base_url \in BaseUrls
    /\ allowed_domains = default_domains(base_url)
    /\ max_pages \in 1..MaxPagesBound
    /\ pause = 0
    /\ seed_urls \in SessionSeeds
    /\ queue = <<>>
    /\ visited = {}
    /\ results = <<>>
    /\ pc = "called"
    /\ fetch_log = <<>>
    /\ discovered = {}
    /\ last_fetch = <<>>
    /\ search_call = <<>>
    /\ pdf_call = <<>>
    /\ ppc = "idle"
    /\ outcome = <<>>
    /\ response = <<>>
    /\ \E seeds \in SessionSeeds :
          peer = [seed_urls |-> seeds, queue |-> <<>>, visited |-> {},
                  results |-> <<>>, pc |-> "called", fetch_log |-> <<>>]

\* scrape, lines 50-58, in the second call.
PeerStart ==
    /\ peer.pc = "called"
    /\ peer' = [peer EXCEPT !.queue = enqueue_seeds(peer.seed_urls, base_url, {}, <<>>),
                            !.visited = {},
                            !.results = <<>>,
                            !.pc = "loop"]
    /\ UNCHANGED <<config, crawl, last_fetch, session>>

\* scrape, lines 61-66, in the second call: the dequeued URL is skipped.
PeerSkip ==
    /\ peer.pc = "loop"
    /\ loop_continues(peer.queue, peer.results, max_pages)
    /\ dequeue(Head(peer.queue), session_visited(peer.visited, visited),
               allowed_domains) \in {"visited", "not_allowed"}
    /\ peer' = [peer EXCEPT !.queue = Tail(peer.queue)]
    /\ UNCHANGED <<config, crawl, last_fetch, session>>

\* scrape, lines 68-86, in the second call: the dequeued URL is fetched.
PeerFetch ==
    /\ peer.pc = "loop"
    /\ loop_continues(peer.queue, peer.results, max_pages)
    /\ dequeue(Head(peer.queue), session_visited(peer.visited, visited),
               allowed_domains) = "fetch"
    /\ \E outcomes \in CrawlOutcomes, doc \in SessionDocs :
         \E fr \in {fetch(Head(peer.queue), outcomes, doc, pause)} :
            \E next \in {after_fetch(Head(peer.queue), fr, Tail(peer.queue),
                                     session_visited(peer.visited, visited),
                                     peer.results)} :
               peer' = [peer EXCEPT !.queue = next.queue,
                                    !.visited = next.visited,
                                    !.results = next.results,
                                    !.pc = next.pc,
                                    !.fetch_log = Append(peer.fetch_log, Head(peer.queue))]
    /\ UNCHANGED <<config, crawl, last_fetch, session>>

\* scrape, lines 60 and 88, in the second call.
PeerReturn ==
    /\ peer.pc = "loop"
    /\ ~loop_continues(peer.queue, peer.results, max_pages)
    /\ peer' = [peer EXCEPT !.pc = "returned"]
    /\ UNCHANGED <<config, crawl, last_fetch, session>>

NextSessions ==
    \/ ScrapeStart
    \/ ScrapeSkipVisited
    \/ ScrapeSkipNotAllowed
    \/ ScrapeFetchFailed
    \/ ScrapeFetchOkFrom(SessionDocs)
    \/ ScrapeReturn
    \/ PeerStart
    \/ PeerSkip
    \/ PeerFetch
    \/ PeerReturn

Sessions == InitSessions /\ [][NextSessions]_vars

Init == InitScrape \/ InitFetch \/ InitSearch \/ InitPerform \/ InitApi \/ InitCli

Next ==
    \/ ScrapeStart
    \/ ScrapeSkipVisited
    \/ ScrapeSkipNotAllowed
    \/ ScrapeFetchFailed
    \/ ScrapeFetchOk
    \/ ScrapeReturn
    \/ Fetch
    \/ Search
    \/ PerformSearch
    \/ PerformReturnEmpty
    \/ PerformReturn
    \/ PerformExportFailed
    \/ ApiValidate
    \/ ApiRespond
    \/ CliSearch
    \/ CliFinish

Spec == Init /\ [][Next]_vars

\* A call of scrape that runs on: an iteration that can be taken is taken
\* (every fetch call returns or raises).
NextScrape ==
    \/ ScrapeStart
    \/ ScrapeSkipVisited
    \/ ScrapeSkipNotAllowed
    \/ ScrapeFetchFailed
    \/ ScrapeFetchOk
    \/ ScrapeReturn

FairSpec == InitScrape /\ [][NextScrape]_vars /\ WF_vars(NextScrape)

\* ------------------------------------------------------------------ claims
ResultUrls == {results[i].url : i \in 1..Len(results)}

\* The URLs whose fetch by the crawl failed.
FailedUrls == Range(fetch_log) \ ResultUrls

\* A URL up to its fragment and to an empty path versus "/".
Canon(u) == [u EXCEPT !.fragment = "", !.path = IF u.path = "" THEN "/" ELSE u.path]

Crawling == entry \in {"scrape", "perform_scrape", "api", "cli"}

\* C1: in any run of scrape no two calls of the fetch chain are for URLs that
\* are equal up to fragment and empty path, and no two pages of results have
\* the same URL.
C1_NoDuplicateVisits ==
    Crawling =>
        /\ \A i, j \in 1..Len(fetch_log) :
              Canon(fetch_log[i]) = Canon(fetch_log[j]) => i = j
        /\ \A i, j \in 1..Len(results) :
              Canon(results[i].url) = Canon(results[j].url) => i = j

\* Two seeds that differ as strings name the same page, which was fetched.
C1_Witness ==
    /\ pc = "returned"
    /\ \E i, j \in 1..Len(seed_urls) :
          /\ seed_urls[i] # seed_urls[j]
          /\ Canon(seed_urls[i]) = Canon(seed_urls[j])
          /\ Canon(seed_urls[i]) \in Range(fetch_log)
    /\ Len(fetch_log) >= 2

\* C2: len(results) <= max_pages in every state of scrape and for the list
\* it returns.
C2_BudgetBound == Len(results) <= max_pages

\* The crawl returned with the budget spent and URLs left in the frontier.
C2_Witness ==
    /\ pc = "returned"
    /\ Len(results) = max_pages
    /\ queue # <<>>
    /\ \E u \in Range(queue) : is_allowed(u, allowed_domains) /\ u \notin visited

\* C3: when scrape returns with fewer than max_pages pages, every in-scope URL
\* named by a seed or by a fetched page has been attempted; hence
\* len(results) = max_pages whenever at least max_pages of them fetch.
C3_BudgetReached ==
    (Crawling /\ pc = "returned") =>
        /\ Len(results) < max_pages => discovered \subseteq visited
        /\ Cardinality(discovered \ FailedUrls) >= max_pages => Len(results) = max_pages

\* The budget was reached although a fetch failed on the way.
C3_Witness ==
    /\ pc = "returned"
    /\ max_pages = 2
    /\ Len(results) = max_pages
    /\ FailedUrls # {}

\* C4: every page of results, and every URL the fetch chain was called for,
\* has a host in the allowed-domain set.
C4_DomainScoping ==
    Crawling =>
        /\ \A i \in 1..Len(results) : results[i].url.netloc \in allowed_domains
        /\ \A i \in 1..Len(fetch_log) : fetch_log[i].netloc \in allowed_domains

\* A crawl whose seeds held an out-of-scope URL returned pages.
C4_Witness ==
    /\ pc = "returned"
    /\ results # <<>>
    /\ \E i \in 1..Len(seed_urls) :
          /\ Truthy(normalize(seed_urls[i], base_url))
          /\ normalize(seed_urls[i], base_url).netloc \notin allowed_domains

\* The first backend of a call that returns a result, 0 when none does.
FirstOk(outcomes) ==
    IF \E i \in 1..Len(Strategies) : outcomes[i] = "ok"
    THEN CHOOSE i \in 1..Len(Strategies) :
            outcomes[i] = "ok" /\ \A j \in 1..(i - 1) : outcomes[j] # "ok"
    ELSE 0

\* The last backend of a call that raises, 0 when none does.
LastRaise(outcomes) ==
    IF \E i \in 1..Len(Strategies) : outcomes[i] \in FetchErrors
    THEN CHOOSE i \in 1..Len(Strategies) :
            /\ outcomes[i] \in FetchErrors
            /\ \A j \in (i + 1)..Len(Strategies) : outcomes[j] \notin FetchErrors
    ELSE 0

\* C5: fetch calls its backends in configured order, goes on past a backend
\* that raises or is unavailable, returns the result of the first backend
\* that produces one and calls no backend after it.
C5_FallbackOrder ==
    \A c \in Range(last_fetch) :
        LET k == FirstOk(c.outcomes)
            n == IF k = 0 THEN Len(Strategies) ELSE k
        IN /\ c.invoked = SubSeq(Strategies, 1, n)
           /\ k # 0 => /\ c.status = "returned"
                       /\ c.result = <<[url |-> c.url, strategy |-> Strategies[k]]>>

\* The first backend raised, the second succeeded, the third was not called.
C5_Witness ==
    /\ entry = "fetch"
    /\ \E c \in Range(last_fetch) :
          /\ c.outcomes[1] \in FetchErrors
          /\ c.outcomes[2] = "ok"
          /\ c.outcomes[3] = "ok"
          /\ c.result # <<>>
          /\ c.result[1].strategy = "httpx"
          /\ Len(c.invoked) = 2

\* C6: fetch raises exactly when no backend produced a result, a call that
\* returns has a result, and the error raised carries the exception of the
\* last backend that raised.
C6_FetchError ==
    \A c \in Range(last_fetch) :
        /\ c.status = "raised" <=> (\A i \in 1..Len(Strategies) : c.outcomes[i] # "ok")
        /\ c.status = "returned" => Len(c.result) = 1
        /\ c.status = "raised" => c.result = <<>>
        /\ (c.status = "raised" /\ LastRaise(c.outcomes) # 0) =>
              c.cause = [strategy |-> Strategies[LastRaise(c.outcomes)],
                         error |-> c.outcomes[LastRaise(c.outcomes)]]

\* Every backend failed, two of them with different exceptions.
C6_Witness ==
    /\ entry = "fetch"
    /\ \E c \in Range(last_fetch) :
          /\ c.status = "raised"
          /\ c.outcomes[1] = "ConnectionError"
          /\ c.outcomes[2] = "none"
          /\ c.outcomes[3] = "HTTPError"
          /\ c.cause.strategy = "urllib"

\* The step in which scrape calls the fetch chain and the chain raises.
FetchFailsStep ==
    /\ Crawling
    /\ Len(fetch_log') = Len(fetch_log) + 1
    /\ last_fetch'[1].status = "raised"

\* C7: a failed fetch does not raise out of scrape; its URL is in visited from
\* then on, adds nothing to results or to the frontier and is fetched once
\* only, and the loop goes on with the next frontier item.
C7_FailureIsolated ==
    /\ [](Crawling =>
            /\ pc # "raised"
            /\ FailedUrls \subseteq visited
            /\ \A i, j \in 1..Len(fetch_log) :
                  (fetch_log[i] \in FailedUrls /\ fetch_log[i] = fetch_log[j]) => i = j)
    /\ [][FetchFailsStep =>
            /\ queue' = Tail(queue)
            /\ results' = results
            /\ visited' = visited \cup {Head(queue)}
            /\ pc' = "loop"]_vars
    /\ [][(Crawling /\ pc = "loop") => visited \subseteq visited']_vars

\* A fetch failed and the crawl went on to fetch and return another page.
C7_Witness ==
    /\ pc = "returned"
    /\ \E i, j \in 1..Len(fetch_log) :
          /\ i < j
          /\ fetch_log[i] \in FailedUrls
          /\ fetch_log[j] \in ResultUrls

\* C8 (as claimed): when pages were crawled and every document backend
\* fails, perform_scrape still returns the rendered text and the page list.
C8_TextSurvivesExportFailure ==
    \A e \in IF entry = "perform_scrape" THEN Range(pdf_call) ELSE {} :
        e.status = "raised" =>
            /\ ppc = "returned"
            /\ outcome # <<>>
            /\ outcome[1].pages = results
            /\ outcome[1].rendered_text = render(results)

\* C9 (as claimed): when every search backend fails, search returns an empty
\* list without raising and perform_scrape crawls from the base URL alone.
C9_AllBackendsFail ==
    \A c \in Range(search_call) :
        c.all_caught =>
            /\ c.status = "returned"
            /\ c.found = <<>>
            /\ entry = "perform_scrape" => seed_urls = <<base_url>>

\* C9 (amended): search never raises; when every search backend fails
\* without having yielded a URL it returns an empty list, and perform_scrape
\* then crawls with a seed list that holds only the base URL.
C9_AllBackendsFailEmpty ==
    \A c \in Range(search_call) :
        /\ c.status = "returned"
        /\ (c.all_caught /\ ~c.any_yielded) =>
              /\ c.found = <<>>
              /\ entry = "perform_scrape" => seed_urls = <<base_url>>

\* Every backend failed at once and the crawl ran from the base URL alone.
C9_Witness ==
    /\ entry = "perform_scrape"
    /\ \E c \in Range(search_call) : c.all_caught /\ ~c.any_yielded
    /\ pc = "returned"
    /\ seed_urls = <<base_url>>
    /\ results # <<>>

\* C10: when the crawl inside perform_scrape collects no page, perform_scrape
\* returns an outcome with no pages, empty text and empty document bytes, and
\* no document backend is invoked.
C10_EmptyOutcome ==
    (entry = "perform_scrape" /\ pc = "returned" /\ results = <<>>) =>
        /\ ppc \in {"scraping", "returned"}
        /\ pdf_call = <<>>
        /\ ppc = "returned" =>
              /\ outcome # <<>>
              /\ outcome[1].pages = <<>>
              /\ outcome[1].rendered_text = <<>>
              /\ outcome[1].pdf_bytes = <<>>
              /\ outcome[1].pdf_strategy = ""

\* Every fetch of the crawl failed and perform_scrape returned.
C10_Witness ==
    /\ entry = "perform_scrape"
    /\ ppc = "returned"
    /\ results = <<>>
    /\ fetch_log # <<>>
    /\ outcome # <<>>

\* C11: the list search returns holds no URL twice and at most max_results
\* URLs, and a backend is invoked only while fewer than max_results URLs have
\* been collected.
C11_SearchDedupCap ==
    \A c \in IF entry = "search" THEN Range(search_call) ELSE {} :
        /\ \A i, j \in 1..Len(c.found) : c.found[i] = c.found[j] => i = j
        /\ Len(c.found) <= c.max_results
        /\ \A i \in 1..(Len(c.invoked) - 1) : c.invoked[i].collected < c.max_results
        /\ Len(c.invoked) < Len(SearchStrategies) =>
              c.invoked[Len(c.invoked)].collected >= c.max_results

\* The first backend failed, the second reached the cap with a URL it listed
\* behind a redirect, and the third, which had results, was not invoked.
C11_Witness ==
    /\ entry = "search"
    /\ \E c \in Range(search_call) :
          /\ Len(c.invoked) = 2
          /\ c.invoked[1].caught
          /\ Len(c.found) = c.max_results
          /\ c.behaviours[2].items # <<>>
          /\ c.behaviours[2].items[1].uddg # <<>>
          /\ c.found[1] = c.behaviours[2].items[1].uddg[1]
          /\ c.behaviours[3].items # <<>>
          /\ ~c.behaviours[3].fails

\* The ScrapeOutcome perform_scrape returned, when it has.
Returned == IF entry = "perform_scrape" /\ ppc = "returned" THEN Range(outcome) ELSE {}

\* The lines page.text takes in the artifact: an empty text is one empty line.
TextHeight(page) == IF page.text = <<>> THEN 1 ELSE Len(page.text)

\* The number of artifact lines that precede the block of page i, for blocks
\* with `header` lines before the text and three after it.
RECURSIVE BlockStart(_, _, _)
BlockStart(pages, i, header) ==
    IF i = 1 THEN 0
    ELSE BlockStart(pages, i - 1, header) + header + TextHeight(pages[i - 1]) + 3

\* Lines first..(first + TextHeight(page) - 1) of t are the text of page.
TextAt(t, first, page) ==
    IF page.text = <<>> THEN t[first] = BlankLine
    ELSE \A k \in 1..Len(page.text) : t[first + k - 1] = Line("", page.text[k], EmptyStr)

\* The three lines that close a block: blank, 80 "=", blank.
ClosingAt(t, first) ==
    /\ t[first] = BlankLine
    /\ t[first + 1] = Line("", Sep80, EmptyStr)
    /\ t[first + 2] = BlankLine

\* C12 (as claimed): the artifact is, for each page in order, the lines
\* "# <title>", blank, "URL: <url>", "Fetched via: <strategy>", blank, the
\* text, blank, 80 "=", blank.
C12_RenderLines ==
    \A o \in Returned :
        LET t == o.rendered_text
            n == Len(o.pages)
        IN /\ Len(t) = BlockStart(o.pages, n + 1, 5)
           /\ \A i \in 1..n :
                 LET b == BlockStart(o.pages, i, 5)
                     page == o.pages[i]
                 IN /\ t[b + 1] = Line("# ", page.title.text, page.title.url)
                    /\ t[b + 2] = BlankLine
                    /\ t[b + 3] = Line("URL: ", "", page.url)
                    /\ t[b + 4] = Line("Fetched via: ", page.fetch_strategy, EmptyStr)
                    /\ t[b + 5] = BlankLine
                    /\ TextAt(t, b + 6, page)
                    /\ ClosingAt(t, b + 6 + TextHeight(page))

\* C12 (amended): the artifact is, for each page in order, the lines
\* "# <title>", "URL: <url>", "Fetched via: <strategy>", blank, the text,
\* blank, 80 "=", blank, and nothing else.
C12_RenderLinesNoBlankAfterTitle ==
    \A o \in Returned :
        LET t == o.rendered_text
            n == Len(o.pages)
        IN /\ Len(t) = BlockStart(o.pages, n + 1, 4)
           /\ \A i \in 1..n :
                 LET b == BlockStart(o.pages, i, 4)
                     page == o.pages[i]
                 IN /\ t[b + 1] = Line("# ", page.title.text, page.title.url)
                    /\ t[b + 2] = Line("URL: ", "", page.url)
                    /\ t[b + 3] = Line("Fetched via: ", page.fetch_strategy, EmptyStr)
                    /\ t[b + 4] = BlankLine
                    /\ TextAt(t, b + 5, page)
                    /\ ClosingAt(t, b + 5 + TextHeight(page))

\* Two pages were rendered, one with text and one without text or title.
C12_Witness ==
    \E o \in Returned :
        /\ Len(o.pages) = 2
        /\ o.pages[1].text # <<>>
        /\ o.pages[2].text = <<>>
        /\ o.pages[2].title.url = o.pages[2].url
        /\ Len(o.rendered_text) > 0

\* str.split on the 80-"=" separator, on the lines of an artifact.  A line of
\* the model holds the separator exactly when it is that separator, so the
\* pieces are the runs of lines between such lines: segs are the pieces
\* closed so far and cur is the piece being read.
RECURSIVE SplitOnSep(_, _, _)
SplitOnSep(t, segs, cur) ==
    IF t = <<>> THEN Append(segs, cur)
    ELSE IF Head(t) = Line("", Sep80, EmptyStr)
         THEN SplitOnSep(Tail(t), Append(segs, cur), <<>>)
         ELSE SplitOnSep(Tail(t), segs, Append(cur, Head(t)))

\* The pieces that hold more than blank lines, in order.
RECURSIVE NonBlank(_)
NonBlank(segs) ==
    IF segs = <<>> THEN <<>>
    ELSE IF \A l \in Range(Head(segs)) : l = BlankLine
         THEN NonBlank(Tail(segs))
         ELSE <<Head(segs)>> \o NonBlank(Tail(segs))

\* The piece names the page: it holds its title and its URL.
Names(seg, page) ==
    /\ \E l \in Range(seg) : l.text = page.title.text /\ l.url = page.title.url
    /\ \E l \in Range(seg) : l.url = page.url

\* C13 (as claimed): splitting the artifact on the 80-"=" separator gives one
\* piece per page, the pieces of blank lines aside, and the i-th piece holds
\* the title and the URL of the i-th page, whatever the page texts are.
C13_TextRoundTrip ==
    \A o \in Returned :
        LET segs == NonBlank(SplitOnSep(o.rendered_text, <<>>, <<>>))
        IN /\ Len(segs) = Len(o.pages)
           /\ \A i \in 1..Len(segs) : Names(segs[i], o.pages[i])

\* The strings scrape has passed to _normalize and kept: seeds and links.
Normalized == Range(queue) \cup visited

OutOfRange(p) ==
    \/ p.max_pages < 1 \/ p.max_pages > 500
    \/ p.max_search_results < 1 \/ p.max_search_results > 200
    \/ p.timeout <= 0
    \/ p.pause < 0

\* C15 (as claimed): with parameters outside the documented ranges no search
\* and no fetch is dispatched and the scrape does not run, whether it is
\* entered through perform_scrape, the HTTP endpoint or the command line.
C15_ValidationBeforeNetwork ==
    (entry \in {"perform_scrape", "api", "cli"} /\ OutOfRange(params)) =>
        /\ search_call = <<>>
        /\ fetch_log = <<>>
        /\ ppc \in {"request", "called", "rejected"}

IsPrefix(a, b) == Len(a) <= Len(b) /\ SubSeq(b, 1, Len(a)) = a

\* The seeds _normalize accepts, normalized, in the order given.
RECURSIVE AcceptedSeeds(_)
AcceptedSeeds(seeds) ==
    IF seeds = <<>> THEN <<>>
    ELSE LET n == normalize(Head(seeds), base_url)
         IN (IF Truthy(n) THEN <<n>> ELSE <<>>) \o AcceptedSeeds(Tail(seeds))

\* The place of u among the accepted seeds, 0 when it is not a seed.
SeedIndex(u) ==
    LET a == AcceptedSeeds(seed_urls)
    IN IF u \in Range(a) THEN CHOOSE i \in 1..Len(a) :
                                  a[i] = u /\ \A j \in 1..(i - 1) : a[j] # u
       ELSE 0

C17_BudgetBeforeDequeue ==
    /\ [][(Crawling /\ pc = "loop" /\ Len(results) >= max_pages) =>
            /\ queue' = queue
            /\ visited' = visited
            /\ results' = results
            /\ fetch_log' = fetch_log
            /\ pc' = "returned"]_vars
    /\ []((Crawling /\ pc \in {"loop", "returned"}) =>
            discovered \ visited \subseteq Range(queue))

\* With max_pages = 1 the seed page is the only result, fetched by the only
\* call of the fetch chain, and its two links are still queued.
C17_Witness ==
    /\ entry = "scrape"
    /\ pc = "returned"
    /\ max_pages = 1
    /\ Len(results) = 1
    /\ Len(fetch_log) = 1
    /\ results[1].url = Url("https", "example.com", "/", "")
    /\ queue = <<Url("https", "example.com", "/a", ""), Url("https", "example.com", "/b", "")>>
    /\ Range(queue) \cap visited = {}

\* C18 (as claimed): the frontier never holds the same normalized URL twice.
C18_FrontierNoDuplicates ==
    Crawling => \A i, j \in 1..Len(queue) : queue[i] = queue[j] => i = j

\* C19 (as claimed): the frontier holds no URL that is in visited.
C19_FrontierDisjointFromVisited ==
    Crawling => Range(queue) \cap visited = {}

\* C20: the iteration of scrape that dequeues a URL whose host is outside the
\* allowed domains removes it from the frontier and changes nothing else: it
\* is not added to visited, no fetch is made and results keeps its length.
C20_OutOfDomainFrame ==
    [][(/\ Crawling
        /\ pc = "loop"
        /\ queue # <<>>
        /\ Len(results) < max_pages
        /\ Head(queue).netloc \notin allowed_domains) =>
            /\ queue' = Tail(queue)
            /\ visited' = visited
            /\ results' = results
            /\ fetch_log' = fetch_log
            /\ last_fetch' = last_fetch
            /\ discovered' = discovered
            /\ pc' = "loop"]_vars

\* The first seed is on another host: it was dequeued, is not in visited, and
\* the second seed still filled the budget of one page.
C20_Witness ==
    /\ entry = "scrape"
    /\ pc = "returned"
    /\ max_pages = 1
    /\ Len(AcceptedSeeds(seed_urls)) = 2
    /\ AcceptedSeeds(seed_urls)[1].netloc \notin allowed_domains
    /\ AcceptedSeeds(seed_urls)[1] \notin visited
    /\ Len(results) = 1
    /\ results[1].url = AcceptedSeeds(seed_urls)[2]
    /\ Len(fetch_log) = 1

\* C21 (as claimed): with pause > 0 every call of the fetch chain made by the
\* crawl is followed by one pause, and with pause = 0 by none.
C21_PauseAfterEveryFetch ==
    Crawling =>
        \A c \in Range(last_fetch) : c.slept = (IF pause > 0 THEN 1 ELSE 0)

\* C21 (amended): the crawl makes one call of the fetch chain per iteration,
\* for the URL it dequeued; with pause > 0 a call that returns a page has
\* slept once before it returns, and a call that raises, or any call with
\* pause = 0, has not slept.
C21_PauseAfterSuccessfulFetch ==
    [][(Crawling /\ fetch_log' # fetch_log) =>
          /\ fetch_log' = Append(fetch_log, Head(queue))
          /\ Len(last_fetch') = 1
          /\ last_fetch'[1].url = Head(queue)
          /\ last_fetch'[1].slept =
                (IF pause > 0 /\ last_fetch'[1].status = "returned" THEN 1 ELSE 0)]_vars

\* With pause > 0 a fetch failed, without a pause, and the next one succeeded
\* and paused.
C21_Witness ==
    /\ entry = "scrape"
    /\ pause > 0
    /\ Len(fetch_log) = 2
    /\ fetch_log[1] \in FailedUrls
    /\ \E c \in Range(last_fetch) :
          c.url = fetch_log[2] /\ c.status = "returned" /\ c.slept = 1

\* C22: scrape terminates.  Every iteration of its loop either adds a page to
\* results, which never has more than max_pages pages, or leaves results as
\* it is and shortens the frontier; so the loop cannot go on for ever,
\* whatever the pages link to, and a call of scrape returns.
C22_ScrapeTerminates ==
    /\ [][(Crawling /\ pc = "loop" /\ pc' = "loop") =>
            \/ /\ Len(results') = Len(results) + 1
               /\ Len(results') <= max_pages
            \/ /\ results' = results
               /\ Len(queue') < Len(queue)]_vars
    /\ [][(Crawling /\ pc = "returned") => pc' = "returned"]_vars
    /\ ((Crawling /\ pc = "called") ~> (pc = "returned"))

\* A crawl over pages that link to each other and back returned with the
\* frontier emptied and budget left.
C22_Witness ==
    /\ entry = "scrape"
    /\ pc = "returned"
    /\ max_pages = 2
    /\ Len(results) = 1
    /\ queue = <<>>
    /\ Len(fetch_log) = 2
    /\ results[1].url \in Targets(<<Url("https", "example.com", "", "")>>, results[1].url)

\* The frontier, visited set and results of the first call of scrape.
OwnState == <<queue, visited, results>>

\* The same of the second call.
PeerState == <<peer.queue, peer.visited, peer.results>>

\* C23: the frontier, visited set and results belong to one call of scrape.
\* Of two calls in progress, in any interleaving, a step changes the state of
\* one call only; each call's visited set and results hold only URLs that
\* call fetched itself; and a call fetches the allowed URL it dequeues unless
\* it has visited that URL itself, also when the other call has visited it.
C23_SessionsIsolated ==
    /\ [](/\ visited = Range(fetch_log)
          /\ ResultUrls \subseteq visited
          /\ peer.visited = Range(peer.fetch_log)
          /\ {peer.results[i].url : i \in 1..Len(peer.results)} \subseteq peer.visited)
    /\ [][OwnState' = OwnState \/ PeerState' = PeerState]_vars
    /\ [][(/\ peer.pc = "loop"
           /\ peer' # peer
           /\ loop_continues(peer.queue, peer.results, max_pages)
           /\ Head(peer.queue) \notin peer.visited
           /\ is_allowed(Head(peer.queue), allowed_domains))
             => peer'.fetch_log = Append(peer.fetch_log, Head(peer.queue))]_vars
    /\ [][(/\ pc = "loop"
           /\ OwnState' # OwnState
           /\ loop_continues(queue, results, max_pages)
           /\ Head(queue) \notin visited
           /\ is_allowed(Head(queue), allowed_domains))
             => fetch_log' = Append(fetch_log, Head(queue))]_vars

\* Both calls are in their loops, with URLs still to process; the first has
\* visited a URL whose fetch failed, and the second has that URL's page.
C23_Witness ==
    /\ pc = "loop"
    /\ peer.pc = "loop"
    /\ queue # <<>>
    /\ peer.queue # <<>>
    /\ \E i \in 1..Len(peer.fetch_log) :
          /\ peer.fetch_log[i] \in visited
          /\ peer.fetch_log[i] \in FailedUrls
          /\ peer.fetch_log[i] \in {peer.results[j].url : j \in 1..Len(peer.results)}

\* The first occurrences of the elements of s, in the order of s.
RECURSIVE FirstOccurrences(_)
FirstOccurrences(s) ==
    IF s = <<>> THEN <<>>
    ELSE LET init == FirstOccurrences(SubSeq(s, 1, Len(s) - 1))
         IN IF s[Len(s)] \in Range(init) THEN init ELSE Append(init, s[Len(s)])

Take(s, n) == SubSeq(s, 1, IF Len(s) < n THEN Len(s) ELSE n)

\* The URLs backend k produces in the search call c.
Produced(c, k) == strategy_run(k, c.behaviours[k], c.max_results).yields

\* C24: search calls the backends in order and goes on to the next one
\* whenever it leaves a backend, exhausted or failed, with fewer than
\* max_results URLs, also when that backend gave it URLs; the URLs a backend
\* produced before it failed are kept; and the list returned is the first
\* occurrences, cut at max_results, of what the backends produced, backend
\* after backend and each backend's URLs in the order it produced them.
C24_SearchProgression ==
    \A c \in IF entry = "search" THEN Range(search_call) ELSE {} :
       /\ c.status = "returned"
       /\ Len(c.invoked) >= 1
       /\ \A k \in 1..Len(c.invoked) :
             /\ c.invoked[k].strategy = SearchStrategies[k]
             /\ (k < Len(SearchStrategies) /\ c.invoked[k].collected < c.max_results)
                   => Len(c.invoked) > k
             /\ c.invoked[k].caught =>
                   Range(Produced(c, k)) \subseteq Range(c.found)
       /\ c.found = Take(FirstOccurrences(Produced(c, 1) \o Produced(c, 2)
                                             \o Produced(c, 3)),
                         c.max_results)

\* The first backend produced two URLs that are one URL once cleaned and
\* then failed; the second backend was called and its URL comes second.
C24_Witness ==
    /\ entry = "search"
    /\ \E c \in Range(search_call) :
          /\ c.invoked[1].yielded = 2
          /\ c.invoked[1].collected = 1
          /\ c.invoked[1].caught
          /\ Len(c.invoked) = 2
          /\ Len(c.found) = 2
          /\ c.found[1] = Produced(c, 1)[1]
          /\ c.found[2] = Produced(c, 2)[1]

\* The call builds its seed list from a search: perform_scrape or main.
Seeded == entry \in {"perform_scrape", "api", "cli"} /\ ppc \in {"scraping", "returned", "raised"}

\* C25: once perform_scrape or main has built the seed list, the list starts
\* with the base URL; every later seed is a search result whose host is
\* exactly the base host, and every such result is in the list; no string
\* occurs twice; and when the base URL's page is among the pages of the
\* crawl, it is the first of them.
C25_SeedList ==
    Seeded =>
        /\ Len(seed_urls) >= 1
        /\ seed_urls[1] = base_url
        /\ \A i \in 2..Len(seed_urls) :
              /\ seed_urls[i].netloc = base_url.netloc
              /\ \E s \in Range(search_call) : seed_urls[i] \in Range(s.found)
        /\ \A s \in Range(search_call) : \A u \in Range(s.found) :
              u.netloc = base_url.netloc => u \in Range(seed_urls)
        /\ \A i, j \in 1..Len(seed_urls) : seed_urls[i] = seed_urls[j] => i = j
        /\ (normalize(base_url, base_url) \in Range(fetch_log) \ FailedUrls)
              => /\ max_pages >= 1
                 /\ results[1].url = normalize(base_url, base_url)
                 /\ fetch_log[1] = normalize(base_url, base_url)

\* The search returned the base URL itself and a page on the "www." host,
\* which the crawl allows; the seed list is the base URL alone, and the
\* crawl returned the base URL's page first.
C25_Witness ==
    /\ Seeded
    /\ pc = "returned"
    /\ seed_urls = <<base_url>>
    /\ \E s \in Range(search_call) :
          /\ base_url \in Range(s.found)
          /\ \E u \in Range(s.found) :
                u.netloc = WwwCounterpart(base_url.netloc) /\ is_allowed(u, allowed_domains)
    /\ results # <<>>
    /\ results[1].url = normalize(base_url, base_url)

====
